---- MODULE Spec2Model ----
(***************************************************************************)
(* The linux-dmabuf negotiation object (ParamsHandler) of                  *)
(* src/wayland/dmabuf/mod.rs: add / create / create_immed, the validator   *)
(* buffer_basic_checks, the Dmabuf they build and the events sent when the *)
(* global is bound; and export / import of src/backend/allocator/gbm.rs.   *)
(*                                                                         *)
(* Spec drives one negotiation object, PairSpec two objects and a twin of  *)
(* the first, GbmSpec the two gbm conversions.                             *)
(*                                                                         *)
(* Numbers.  TLC's integers are 32-bit signed, so a u32 cannot be held in  *)
(* one of them.  A u32 is a little-endian sequence of 4 bytes and an       *)
(* i64 / u64 a sequence of 8 bytes; the arithmetic of the validator        *)
(* (checked_mul, checked_add, the unchecked +, the `as i64` comparisons)   *)
(* is done on the bytes, so it is exact at the widths of the code.         *)
(* width, height (i32) and plane_idx are ordinary integers.                *)
(***************************************************************************)
EXTENDS Integers, Sequences, FiniteSets, TLC

VARIABLES
    pending_planes,   \* ParamsHandler.pending_planes, per negotiation object
    used,             \* ParamsHandler.used, per negotiation object
    last,             \* the request dispatched last and everything it sent
    replay,           \* PairSpec: the request the twin object has yet to get
    gbm               \* GbmSpec: the export or import made last, and its result

vars == <<pending_planes, used, last, replay, gbm>>
\* what the requests on a negotiation object do not touch
beside == <<replay, gbm>>

(***************************************************************************)
(* Bounds of the model.                                                    *)
(***************************************************************************)
\* planes one negotiation object is driven to hold (the code's limit is 4)
MaxAdds == 2
\* planes of a driver buffer object
MaxBoPlanes == 2
\* the client-supplied plane_idx ranges over 0..MaxPlaneIdx
MaxPlaneIdx == 4

(***************************************************************************)
(* Byte arithmetic.                                                        *)
(***************************************************************************)
RECURSIVE Digits(_, _)
\* the k low bytes of the two's complement of n, least significant first
Digits(n, k) == IF k = 0 THEN <<>> ELSE <<n % 256>> \o Digits(n \div 256, k - 1)

U32(n) == Digits(n, 4)
I64(n) == Digits(n, 8)
U32Max == <<255, 255, 255, 255>>

\* u32 -> i64 / u64 (zero extension)
Widen(a) == a \o [i \in 1..(8 - Len(a)) |-> 0]

RECURSIVE Propagate(_, _)
\* carry propagation over column sums; the last carry becomes the top byte
Propagate(cols, carry) ==
    IF cols = <<>> THEN <<carry>>
    ELSE LET t == Head(cols) + carry
         IN  <<t % 256>> \o Propagate(Tail(cols), t \div 256)

\* a + b of two k-byte numbers, as k+1 bytes
AddFull(a, b) == Propagate([i \in 1..Len(a) |-> a[i] + b[i]], 0)

RECURSIVE ColSum(_, _, _, _)
\* sum of a[i] * b[k + 1 - i] for i in 1..n (bytes out of range count 0)
ColSum(a, b, k, n) ==
    IF n = 0 THEN 0
    ELSE (IF k + 1 - n \in 1..Len(b) THEN a[n] * b[k + 1 - n] ELSE 0)
         + ColSum(a, b, k, n - 1)

\* a * b of two 4-byte numbers, as 8 bytes
MulFull(a, b) ==
    Propagate([k \in 1..(Len(a) + Len(b) - 1) |-> ColSum(a, b, k, Len(a))], 0)

IsZero(s) == \A i \in 1..Len(s) : s[i] = 0

RECURSIVE Gt(_, _)
\* a > b, for two numbers of the same length
Gt(a, b) ==
    IF a = <<>> THEN FALSE
    ELSE LET n == Len(a)
         IN  IF a[n] # b[n] THEN a[n] > b[n]
             ELSE Gt(SubSeq(a, 1, n - 1), SubSeq(b, 1, n - 1))

NoValue == <<>>

\* faulty variant: the product wraps
CheckedMul_Wrapping(a, b) == SubSeq(MulFull(a, b), 1, 4)

\* u32::checked_mul: None (NoValue) when the product does not fit
CheckedMul(a, b) ==
    LET full == MulFull(a, b)
    IN  IF IsZero(SubSeq(full, 5, 8)) THEN SubSeq(full, 1, 4) ELSE NoValue

\* faulty variant: the sum wraps
CheckedAdd_Wrapping(a, b) ==
    IF a = NoValue THEN NoValue ELSE SubSeq(AddFull(a, b), 1, 4)

\* u32::checked_add, after and_then: None stays None
CheckedAdd(a, b) ==
    IF a = NoValue THEN NoValue
    ELSE LET full == AddFull(a, b)
         IN  IF full[5] = 0 THEN SubSeq(full, 1, 4) ELSE NoValue

\* the unchecked u32 `+`: the wrapped sum and whether it overflowed
UncheckedAdd(a, b) ==
    LET full == AddFull(a, b)
    IN  [sum |-> SubSeq(full, 1, 4), ovf |-> full[5] # 0]

(***************************************************************************)
(* The environment: descriptors, the supported formats, the requests.      *)
(***************************************************************************)
NoSize == <<>>

\* what lseek(fd, 0, SeekEnd) answers for each descriptor a client may send:
\* Ok(size) as an i64, or Err (NoSize) for a descriptor that cannot seek
FdSize ==
    (3 :> I64(512)) @@ (4 :> I64(1024)) @@ (5 :> NoSize)
    @@ (6 :> <<0, 0, 0, 0, 2, 0, 0, 0>>)           \* 2^33 bytes

\* drm fourcc codes as the u32 the client sends: the four ASCII bytes
FourccCodes ==
    [Argb8888 |-> <<65, 82, 50, 52>>,              \* 'AR24'
     Xrgb8888 |-> <<88, 82, 50, 52>>,              \* 'XR24'
     Nv12     |-> <<78, 86, 49, 50>>]              \* 'NV12'

NoFourcc == "Err"

\* Fourcc::try_from(u32): the enum value with that code, or Err
FourccTryFrom(code) ==
    IF \E f \in DOMAIN FourccCodes : FourccCodes[f] = code
    THEN CHOOSE f \in DOMAIN FourccCodes : FourccCodes[f] = code
    ELSE NoFourcc

\* Modifier::from(u64): the two sentinels, any other value kept as it is
ModLinear == I64(0)
ModInvalid == <<255, 255, 255, 255, 255, 255, 255, 0>>
ModifierFrom(m) ==
    IF m = ModLinear THEN [kind |-> "Linear", raw |-> m]
    ELSE IF m = ModInvalid THEN [kind |-> "Invalid", raw |-> m]
    ELSE [kind |-> "Unrecognized", raw |-> m]

\* ((modifier_hi as u64) << 32) + (modifier_lo as u64)
ModifierOfHalves(modifier_hi, modifier_lo) == modifier_lo \o modifier_hi

\* the formats handed to init_dmabuf_global
formats ==
    << [code |-> "Argb8888", modifier |-> ModifierFrom(ModLinear)],
       [code |-> "Xrgb8888", modifier |-> ModifierFrom(ModInvalid)] >>

\* ParamsHandler.max_planes
max_planes == 4

\* the negotiation objects
Params == {1, 2, 3}
\* the object the requests of Spec go to
MainParams == {1}
\* PairSpec: the two objects whose requests interleave, and the twin that
\* gets the requests of object 1 and no others
PairParams == {1, 2}
TwinParams == {3}

\* the (fd, offset, stride, modifier_hi, modifier_lo) of the add requests
PlaneArgs ==
    { \* 64-byte rows from the start of a 512-byte region
      [fd |-> 3, offset |-> U32(0),    stride |-> U32(64), hi |-> U32(0), lo |-> U32(0)],
      \* the same on a 1024-byte region
      [fd |-> 4, offset |-> U32(0),    stride |-> U32(64), hi |-> U32(0), lo |-> U32(0)],
      \* an offset past the end of the 512-byte region
      [fd |-> 3, offset |-> U32(600),  stride |-> U32(64), hi |-> U32(0), lo |-> U32(0)],
      \* a row that starts inside the 1024-byte region and ends outside it
      [fd |-> 4, offset |-> U32(1000), stride |-> U32(64), hi |-> U32(0), lo |-> U32(0)],
      \* a descriptor that cannot seek, a driver-specific modifier
      [fd |-> 5, offset |-> U32(600),  stride |-> U32(64), hi |-> U32(1), lo |-> U32(2)],
      \* stride u32::MAX on a region of 2^33 bytes
      [fd |-> 6, offset |-> U32(1),    stride |-> U32Max,  hi |-> U32(1), lo |-> U32(2)] }

PlaneIdxs == 0..MaxPlaneIdx

\* the (width, height, format) of the create and create_immed requests
CreateArgs ==
    { [width |-> 16, height |-> 1,  format |-> FourccCodes.Argb8888],
      [width |-> 16, height |-> 2,  format |-> FourccCodes.Argb8888],
      [width |-> 16, height |-> 16, format |-> FourccCodes.Argb8888],
      [width |-> -1, height |-> 16, format |-> FourccCodes.Argb8888],
      [width |-> 16, height |-> 0,  format |-> FourccCodes.Argb8888],
      [width |-> 0,  height |-> -1, format |-> FourccCodes.Argb8888],
      [width |-> -1, height |-> 2,  format |-> FourccCodes.Argb8888],
      [width |-> 16, height |-> 16, format |-> FourccCodes.Nv12],
      [width |-> 16, height |-> 2,  format |-> FourccCodes.Nv12],
      [width |-> 0,  height |-> 0,  format |-> FourccCodes.Nv12],
      [width |-> 16, height |-> 16, format |-> U32(7)],
      [width |-> -1, height |-> 2,  format |-> U32(7)] }
FlagArgs == {9}

(***************************************************************************)
(* What one request sends back.                                            *)
(***************************************************************************)
NoDmabuf == [width |-> <<>>, height |-> <<>>, format |-> NoFourcc,
             flags |-> 0, planes |-> <<>>]

\* a request that has sent nothing yet
Quiet ==
    [op |-> "none", p |-> 0,
     \* the arguments the handler read (none when it stopped at `used`)
     plane_idx |-> -1,            \* add
     width |-> 0, height |-> 0,   \* create, create_immed
     format |-> <<>>,
     err |-> "none",              \* post_error: the ParamError code
     msg |-> "none",              \* post_error: which message
     msg_plane |-> -1,            \* post_error: the plane_idx the message names
     posted |-> 0,                \* calls of post_error
     checks |-> "none",           \* buffer_basic_checks: none / passed / failed
     ovf |-> FALSE,               \* the validator's unchecked + overflowed
     event |-> "none",            \* params.created / params.failed
     dmabuf |-> NoDmabuf,         \* what buf.build() returned
     resource |-> "none",         \* the wl_buffer: minted / preallocated
     bound |-> FALSE,             \* user_data().set(dmabuf) done
     validated |-> 0,             \* calls of handler.validate_dmabuf
     accepted |-> FALSE,          \* its answer
     released |-> FALSE,          \* buffer.release() sent
     fd_stored |-> FALSE,         \* add: the fd was moved into a stored Plane
     fd_closed |-> 0,             \* add: times the handler closed the fd
     version |-> 0,               \* bind: the version the client bound
     events |-> <<>>]             \* bind: the events sent on the global

\* params.as_ref().post_error(code, message)
PostError(req, code, message) ==
    [req EXCEPT !.err = code, !.msg = message, !.posted = @ + 1]

(***************************************************************************)
(* buffer_basic_checks                                                     *)
(***************************************************************************)
Passed == [ok |-> TRUE, err |-> "none", msg |-> "none", plane |-> -1, ovf |-> FALSE]
Failed(code, message) ==
    [ok |-> FALSE, err |-> code, msg |-> message, plane |-> -1, ovf |-> FALSE]

\* faulty variant: the check of `end` against the size is left out
PlaneCheck_NoEndCheck(plane, height) ==
    LET end  == CheckedAdd(CheckedMul(plane.stride, U32(height)), plane.offset)
        size == FdSize[plane.fd]
        sum  == UncheckedAdd(plane.offset, plane.stride)
    IN  IF end = NoValue THEN Failed("OutOfBounds", "size_overflow")
        ELSE IF size = NoSize THEN Passed
        ELSE IF Gt(Widen(plane.offset), size)
             THEN Failed("OutOfBounds", "invalid_offset")
        ELSE IF Gt(Widen(sum.sum), size)
             THEN [Failed("OutOfBounds", "invalid_stride") EXCEPT !.ovf = sum.ovf]
        ELSE [Passed EXCEPT !.ovf = sum.ovf]

\* faulty variant: `end` is held against the size for every plane
EndChecked_EveryPlane(plane) == plane.plane_idx >= 0

\* plane.plane_idx == 0 && ..: only plane 0 has `end` held against the size
EndChecked(plane) == plane.plane_idx = 0

\* the body of the loop over pending_planes, for one plane
PlaneCheck(plane, height) ==
    LET end  == CheckedAdd(CheckedMul(plane.stride, U32(height)), plane.offset)
        size == FdSize[plane.fd]
        sum  == UncheckedAdd(plane.offset, plane.stride)
    IN  IF end = NoValue THEN Failed("OutOfBounds", "size_overflow")
        ELSE IF size = NoSize THEN Passed
        ELSE IF Gt(Widen(plane.offset), size)
             THEN Failed("OutOfBounds", "invalid_offset")
        ELSE IF Gt(Widen(sum.sum), size)
             THEN [Failed("OutOfBounds", "invalid_stride") EXCEPT !.ovf = sum.ovf]
        ELSE IF EndChecked(plane) /\ Gt(Widen(end), size)
             THEN [Failed("OutOfBounds", "invalid_stride_or_height") EXCEPT !.ovf = sum.ovf]
        ELSE [Passed EXCEPT !.ovf = sum.ovf]

RECURSIVE CheckPlanes(_, _)
\* for plane in pending_planes: the first plane that fails ends the loop
CheckPlanes(planes, height) ==
    IF planes = <<>> THEN Passed
    ELSE LET r == PlaneCheck(Head(planes), height)
         IN  IF ~r.ok THEN [r EXCEPT !.plane = Head(planes).plane_idx]
             ELSE LET rest == CheckPlanes(Tail(planes), height)
                  IN  [rest EXCEPT !.ovf = r.ovf \/ rest.ovf]

\* faulty variant: && for ||
DimensionsInvalid_Both(width, height) == width < 1 /\ height < 1

\* width < 1 || height < 1
DimensionsInvalid(width, height) == width < 1 \/ height < 1

\* faulty variant: the dimensions are looked at before the format
buffer_basic_checks_DimensionsFirst(fmts, planes, format, width, height) ==
    IF DimensionsInvalid(width, height)
    THEN Failed("InvalidDimensions", "dimensions")
    ELSE IF ~ \E i \in 1..Len(fmts) : fmts[i].code = format
    THEN Failed("InvalidFormat", "format_unsupported")
    ELSE CheckPlanes(planes, height)

buffer_basic_checks(fmts, planes, format, width, height) ==
    IF ~ \E i \in 1..Len(fmts) : fmts[i].code = format
    THEN Failed("InvalidFormat", "format_unsupported")
    ELSE IF DimensionsInvalid(width, height)
    THEN Failed("InvalidDimensions", "dimensions")
    ELSE CheckPlanes(planes, height)

(***************************************************************************)
(* The Dmabuf builder (backend/allocator/dmabuf.rs).                       *)
(***************************************************************************)
\* DmabufFlags::from_bits_truncate: Y_INVERT 1, INTERLACED 2, BOTTOM_FIRST 4
FlagsTruncate(flags) == flags % 8

\* Dmabuf::new(width, height, format, flags)
DmabufNew(width, height, format, flags) ==
    [width |-> width, height |-> height, format |-> format,
     flags |-> flags, planes |-> <<>>]

\* DmabufBuilder::add_plane(fd, idx, offset, stride, modifier)
AddPlane(buf, fd, idx, offset, stride, modifier) ==
    [buf EXCEPT !.planes = Append(@, [fd |-> fd, plane_idx |-> idx, offset |-> offset,
                                      stride |-> stride, modifier |-> modifier])]

RECURSIVE InsertByIdx(_, _)
InsertByIdx(sorted, plane) ==
    IF sorted = <<>> THEN <<plane>>
    ELSE IF plane.plane_idx < Head(sorted).plane_idx THEN <<plane>> \o sorted
    ELSE <<Head(sorted)>> \o InsertByIdx(Tail(sorted), plane)

RECURSIVE SortByIdx(_)
SortByIdx(planes) ==
    IF planes = <<>> THEN <<>>
    ELSE InsertByIdx(SortByIdx(SubSeq(planes, 1, Len(planes) - 1)), planes[Len(planes)])

\* DmabufBuilder::build: None (NoDmabuf) without planes, else ordered by index
DmabufBuild(buf) ==
    IF buf.planes = <<>> THEN NoDmabuf
    ELSE [buf EXCEPT !.planes = SortByIdx(@)]

(***************************************************************************)
(* ParamsHandler                                                           *)
(***************************************************************************)
\* for (i, plane) in planes.into_iter().enumerate() { buf.add_plane(.., i, ..) }
RECURSIVE AddPlanes(_, _, _)
AddPlanes(buf, planes, i) ==
    IF planes = <<>> THEN buf
    ELSE LET plane == Head(planes)
         IN  AddPlanes(AddPlane(buf, plane.fd, i, plane.offset, plane.stride,
                                plane.modifier),
                       Tail(planes), i + 1)

\* faulty variant: > for >=
PlaneIdxTooLarge_OffByOne(plane_idx) == plane_idx > max_planes

\* plane_idx >= self.max_planes
PlaneIdxTooLarge(plane_idx) == plane_idx >= max_planes

\* faulty variant: > for ==
PlaneAlreadySet_Greater(planes, plane_idx) ==
    \E i \in 1..Len(planes) : planes[i].plane_idx > plane_idx

\* self.pending_planes.iter().any(|d| d.plane_idx == plane_idx)
PlaneAlreadySet(planes, plane_idx) ==
    \E i \in 1..Len(planes) : planes[i].plane_idx = plane_idx

\* ParamsHandler::add
Add(p, fd, plane_idx, offset, stride, modifier) ==
    LET call == [Quiet EXCEPT !.op = "add", !.p = p]
        req == [call EXCEPT !.plane_idx = plane_idx]
    IN  IF used[p]
        THEN /\ last' = PostError(call, "AlreadyUsed", "already_used")
             /\ UNCHANGED <<pending_planes, used>>
        ELSE IF PlaneIdxTooLarge(plane_idx)
        THEN /\ last' = PostError(req, "PlaneIdx", "plane_idx")
             /\ UNCHANGED <<pending_planes, used>>
        ELSE IF PlaneAlreadySet(pending_planes[p], plane_idx)
        THEN /\ last' = PostError(req, "PlaneSet", "plane_set")
             /\ UNCHANGED <<pending_planes, used>>
        ELSE /\ Len(pending_planes[p]) < MaxAdds
             /\ pending_planes' =
                    [pending_planes EXCEPT ![p] =
                        Append(@, [fd |-> fd, plane_idx |-> plane_idx,
                                   offset |-> offset, stride |-> stride,
                                   modifier |-> ModifierFrom(modifier)])]
             /\ last' = [req EXCEPT !.fd_stored = TRUE]
             /\ UNCHANGED used

\* faulty variant: the object is never marked
MarkUsed_Forgotten(p) == used

\* self.used = true
MarkUsed(p) == [used EXCEPT ![p] = TRUE]

\* faulty variant: the failure is reported with failed() instead
ChecksFailed_SoftFail(req, chk) ==
    [req EXCEPT !.checks = "failed", !.ovf = chk.ovf, !.event = "failed"]

\* if !buffer_basic_checks(..) { return; }: what the validator posted stands
ChecksFailed(req, chk) ==
    [PostError(req, chk.err, chk.msg) EXCEPT !.checks = "failed", !.ovf = chk.ovf,
                                             !.msg_plane = chk.plane]

\* faulty variant: the None of build() is let through in silence
BuildFailed_Silent(built) == [built EXCEPT !.msg = "incomplete"]

\* buf.build() returned None: post_error(Incomplete) and return
BuildFailed(built) == PostError(built, "Incomplete", "incomplete")

\* Dmabuf::new, the loop over the planes, build()
BuildDmabuf(planes, width, height, fourcc, flags) ==
    DmabufBuild(AddPlanes(DmabufNew(U32(width), U32(height), fourcc,
                                    FlagsTruncate(flags)),
                          planes, 0))

\* faulty variant: created is sent whatever the handler says
CreateValidated_AlwaysCreated(built, accept) ==
    [built EXCEPT !.resource = "minted", !.bound = TRUE, !.validated = @ + 1,
                  !.accepted = accept, !.event = "created"]

\* create: the wl_buffer was minted; the handler validates it
CreateValidated(built, accept) ==
    LET seen == [built EXCEPT !.resource = "minted", !.bound = TRUE,
                              !.validated = @ + 1, !.accepted = accept]
    IN  IF accept
        THEN [seen EXCEPT !.event = "created"]
        ELSE [seen EXCEPT !.event = "failed", !.released = TRUE]

\* faulty variant: a rejection posts nothing
ImmedValidated_Silent(built, accept) ==
    [built EXCEPT !.bound = TRUE, !.validated = @ + 1, !.accepted = accept]

\* create_immed: the handler validates the preallocated wl_buffer
ImmedValidated(built, accept) ==
    LET seen == [built EXCEPT !.bound = TRUE, !.validated = @ + 1,
                              !.accepted = accept]
    IN  IF accept
        THEN seen
        ELSE PostError(seen, "InvalidWlBuffer", "invalid_wl_buffer")

\* ParamsHandler::create
Create(p, width, height, format, flags) ==
    LET call == [Quiet EXCEPT !.op = "create", !.p = p]
        req == [call EXCEPT !.width = width, !.height = height, !.format = format]
    IN  IF used[p]
        THEN /\ last' = PostError(call, "AlreadyUsed", "already_used")
             /\ UNCHANGED <<pending_planes, used>>
        ELSE
        /\ used' = MarkUsed(p)
        /\ LET fourcc == FourccTryFrom(format)
           IN  IF fourcc = NoFourcc
               THEN /\ last' = PostError(req, "InvalidFormat", "format_decode")
                    /\ UNCHANGED pending_planes
               ELSE
               \E chk \in {buffer_basic_checks(formats, pending_planes[p], fourcc,
                                                width, height)} :
               \* an overflow of the unchecked + aborts a build with overflow
               \* checks and wraps in one without
               \E panic \in (IF chk.ovf THEN BOOLEAN ELSE {FALSE}) :
                   IF panic
                   THEN /\ last' = [req EXCEPT !.msg = "panic", !.ovf = TRUE]
                        /\ UNCHANGED pending_planes
                   ELSE IF ~chk.ok
                   THEN /\ last' = ChecksFailed(req, chk)
                        /\ UNCHANGED pending_planes
                   ELSE
                   \E dmabuf \in {BuildDmabuf(pending_planes[p], width, height,
                                              fourcc, flags)} :
                   LET built == [req EXCEPT !.checks = "passed", !.ovf = chk.ovf,
                                            !.dmabuf = dmabuf]
                   IN  /\ pending_planes' = [pending_planes EXCEPT ![p] = <<>>]
                       /\ IF dmabuf = NoDmabuf
                          THEN last' = BuildFailed(built)
                          ELSE \* client().and_then(create_resource): Some or None
                               \E minted \in BOOLEAN :
                               IF ~minted
                               THEN last' = built
                               ELSE \E accept \in BOOLEAN :
                                    last' = CreateValidated(built, accept)

\* ParamsHandler::create_immed
CreateImmed(p, width, height, format, flags) ==
    LET call == [Quiet EXCEPT !.op = "create_immed", !.p = p,
                              !.resource = "preallocated"]
        req == [call EXCEPT !.width = width, !.height = height, !.format = format]
    IN  IF used[p]
        THEN /\ last' = PostError(call, "AlreadyUsed", "already_used")
             /\ UNCHANGED <<pending_planes, used>>
        ELSE
        /\ used' = MarkUsed(p)
        /\ LET fourcc == FourccTryFrom(format)
           IN  IF fourcc = NoFourcc
               THEN /\ last' = PostError(req, "InvalidFormat", "format_decode")
                    /\ UNCHANGED pending_planes
               ELSE
               \E chk \in {buffer_basic_checks(formats, pending_planes[p], fourcc,
                                                width, height)} :
               \E panic \in (IF chk.ovf THEN BOOLEAN ELSE {FALSE}) :
                   IF panic
                   THEN /\ last' = [req EXCEPT !.msg = "panic", !.ovf = TRUE]
                        /\ UNCHANGED pending_planes
                   ELSE IF ~chk.ok
                   THEN /\ last' = ChecksFailed(req, chk)
                        /\ UNCHANGED pending_planes
                   ELSE
                   \E dmabuf \in {BuildDmabuf(pending_planes[p], width, height,
                                              fourcc, flags)} :
                   LET built == [req EXCEPT !.checks = "passed", !.ovf = chk.ovf,
                                            !.dmabuf = dmabuf]
                   IN  /\ pending_planes' = [pending_planes EXCEPT ![p] = <<>>]
                       /\ IF dmabuf = NoDmabuf
                          THEN last' = BuildFailed(built)
                          ELSE \E accept \in BOOLEAN :
                               last' = ImmedValidated(built, accept)

\* faulty variant: one ParamsHandler made outside the CreateParams branch
HandlerOf_Shared(p) == CHOOSE h \in MainParams : TRUE

\* CreateParams makes a ParamsHandler of its own for each params object and
\* moves it into that object's request closure
HandlerOf(p) == p

\* the request handler of a params object (params_id.quick_assign)
AddRequest(p, fd, plane_idx, offset, stride, modifier_hi, modifier_lo) ==
    Add(HandlerOf(p), fd, plane_idx, offset, stride,
        ModifierOfHalves(modifier_hi, modifier_lo))

CreateRequest(p, width, height, format, flags) ==
    Create(HandlerOf(p), width, height, format, flags)

CreateImmedRequest(p, width, height, format, flags) ==
    CreateImmed(HandlerOf(p), width, height, format, flags)

\* no request waits for the twin
NoReplay == [op |-> "none", plane |-> <<>>, plane_idx |-> -1, create |-> <<>>,
             flags |-> 0]

(***************************************************************************)
(* backend/allocator/gbm.rs: export of a driver buffer object.  The driver *)
(* is a script of answers: `count` to plane_count(), `handle[i]` to        *)
(* handle_for_plane(i), `fd[k]` to the k-th call of fd(), and `broken`,    *)
(* the plane whose offset() fails with DeviceDestroyedError (-1: none).    *)
(* An answer "Err" is Err(DeviceDestroyedError); an answer "new" to fd()   *)
(* is a descriptor no earlier call returned.                               *)
(***************************************************************************)
\* nothing exported or imported yet
GbmIdle == [op |-> "none"]

\* what the k-th call of fd() returns: Err, Ok(0) or Ok(a new descriptor)
FdAnswer(bo, k) ==
    CASE bo.fd[k] = "Err"  -> [ok |-> FALSE, fd |-> 0]
      [] bo.fd[k] = "zero" -> [ok |-> TRUE, fd |-> 0]
      [] bo.fd[k] = "new"  -> [ok |-> TRUE, fd |-> 10 + k]

\* the offset and stride the driver reports for a plane
BoOffset(idx) == U32(64 * idx)
BoStride(idx) == U32(64 + idx)

\* what export leaves behind
ExportOut(result, dmabuf, fd_calls, obtained, closed) ==
    [result |-> result, dmabuf |-> dmabuf, fd_calls |-> fd_calls,
     obtained |-> obtained, closed |-> closed]

\* the descriptors a dropped builder closes with its planes
DroppedFds(builder) == {builder.planes[i].fd : i \in 1..Len(builder.planes)}

RECURSIVE HandleFold(_, _, _, _)
\* iter.try_fold(first, ..): None as soon as a pair is not (Ok, Ok) of equal
\* handles, else Some(first)
HandleFold(bo, first, i, planes) ==
    IF i >= planes THEN <<"Some", first>>
    ELSE IF bo.handle[i] # "Err" /\ first # "Err" /\ bo.handle[i] = first
         THEN HandleFold(bo, first, i + 1, planes)
    ELSE <<"None">>

RECURSIVE ExportPlanes(_, _, _, _, _)
\* for idx in 0..planes { builder.add_plane(self.fd()?, idx, self.offset(idx)?, ..) }
ExportPlanes(bo, builder, idx, planes, obtained) ==
    IF idx >= planes
    THEN \* Ok(builder.build().unwrap())
         ExportOut("Ok", DmabufBuild(builder), idx + 1, obtained, {})
    ELSE LET fd == FdAnswer(bo, idx + 2)
         IN  IF ~fd.ok
             THEN ExportOut("DeviceDestroyed", NoDmabuf, idx + 2, obtained,
                            DroppedFds(builder))
             ELSE IF bo.broken = idx
             THEN ExportOut("DeviceDestroyed", NoDmabuf, idx + 2,
                            Append(obtained, fd.fd), DroppedFds(builder))
             ELSE ExportPlanes(bo,
                               AddPlane(builder, fd.fd, idx, BoOffset(idx),
                                        BoStride(idx), bo.modifier),
                               idx + 1, planes, Append(obtained, fd.fd))

\* handle.is_none() is false
HandlesChecked(bo, planes) == HandleFold(bo, bo.handle[0], 1, planes)[1] = "Some"

\* <GbmBuffer as AsDmabuf>::export
export(bo) ==
    IF ~bo.count_ok
    THEN ExportOut("DeviceDestroyed", NoDmabuf, 0, <<>>, {})
    ELSE LET planes == bo.count
         IN  IF ~HandlesChecked(bo, planes)
             THEN ExportOut("UnsupportedBuffer", NoDmabuf, 0, <<>>, {})
             ELSE LET fd == FdAnswer(bo, 1)
                  IN  IF ~fd.ok
                      THEN ExportOut("DeviceDestroyed", NoDmabuf, 1, <<>>, {})
                      ELSE IF fd.fd = 0
                      THEN ExportOut("InvalidFD", NoDmabuf, 1, <<fd.fd>>, {})
                      ELSE ExportPlanes(bo,
                                        DmabufNew(U32(bo.width), U32(bo.height),
                                                  bo.format, 0),
                                        0, planes, <<fd.fd>>)

\* the driver buffer objects with `planes` planes
BufferObjectsOf(planes) ==
    [count_ok : {TRUE}, count : {planes},
     handle : [0..(planes - 1) -> {"Err", "a", "b"}],
     fd : [1..(planes + 1) -> {"Err", "zero", "new"}],
     broken : -1..(planes - 1),
     width : {16}, height : {16}, format : {"Argb8888"},
     modifier : {ModifierFrom(ModLinear), ModifierFrom(I64(258))}]

\* a buffer object whose device is gone: plane_count() fails
DestroyedObject ==
    [count_ok |-> FALSE, count |-> 0, handle |-> <<>>, fd |-> <<>>, broken |-> -1,
     width |-> 0, height |-> 0, format |-> "Argb8888",
     modifier |-> ModifierFrom(ModInvalid)]

BufferObjects ==
    UNION {BufferObjectsOf(planes) : planes \in 1..MaxBoPlanes} \cup {DestroyedObject}

GbmExport ==
    /\ gbm = GbmIdle
    /\ \E bo \in BufferObjects :
           gbm' = [op |-> "export", bo |-> bo, out |-> export(bo)]
    /\ UNCHANGED <<pending_planes, used, last, replay>>

(***************************************************************************)
(* backend/allocator/gbm.rs: import of a Dmabuf.                           *)
(***************************************************************************)
\* dmabuf::MAX_PLANES
MAX_PLANES == 4

\* `as i32` of a u32: the same 32 bits read as two's complement
AsI32(u) ==
    LET low == u[1] + 256 * u[2] + 65536 * u[3] + 16777216 * (u[4] % 128)
    IN  IF u[4] >= 128 THEN (low - 2147483647) - 1 ELSE low

\* `as u32` of an i32
AsU32(i) ==
    IF i >= 0 THEN U32(i)
    ELSE LET low == U32((i + 2147483647) + 1)
         IN  [low EXCEPT ![4] = @ + 128]

\* Dmabuf::handles(), strides(), offsets(): one value per plane, in order
Handles(buf) == [i \in 1..Len(buf.planes) |-> buf.planes[i].fd]
Strides(buf) == [i \in 1..Len(buf.planes) |-> buf.planes[i].stride]
Offsets(buf) == [i \in 1..Len(buf.planes) |-> buf.planes[i].offset]

\* Dmabuf::format(): the code and the modifier of the planes
DmabufFormat(buf) == [code |-> buf.format, modifier |-> buf.planes[1].modifier]

\* Dmabuf::has_modifier(): a modifier other than the two sentinels
HasModifier(buf) == buf.planes[1].modifier.kind \notin {"Invalid", "Linear"}

\* let mut handles = [0; MAX_PLANES];
\* for (i, handle) in self.handles().take(MAX_PLANES).enumerate() { handles[i] = handle }
CollectHandles(values) ==
    [i \in 1..MAX_PLANES |-> IF i <= Len(values) THEN values[i] ELSE 0]

\* the same for strides and offsets, each `as i32`
CollectI32(values) ==
    [i \in 1..MAX_PLANES |-> IF i <= Len(values) THEN AsI32(values[i]) ELSE 0]

\* faulty variant: && for the first ||
MultiPlanePath_Both(buf) ==
    (HasModifier(buf) /\ Len(buf.planes) > 1) \/ Offsets(buf)[1] # U32(0)

\* self.has_modifier() || self.num_planes() > 1 || self.offsets().next().unwrap() != 0
MultiPlanePath(buf) ==
    HasModifier(buf) \/ Len(buf.planes) > 1 \/ Offsets(buf)[1] # U32(0)

\* Dmabuf::import: the gbm call made and its arguments
import(buf, usage) ==
    LET handles == CollectHandles(Handles(buf))
        strides == CollectI32(Strides(buf))
        offsets == CollectI32(Offsets(buf))
    IN  IF MultiPlanePath(buf)
        THEN [call |-> "import_buffer_object_from_dma_buf_with_modifiers",
              len |-> Len(buf.planes), handles |-> handles,
              width |-> buf.width, height |-> buf.height,
              format |-> DmabufFormat(buf).code, usage |-> usage,
              strides |-> strides, offsets |-> offsets,
              modifier |-> DmabufFormat(buf).modifier]
        ELSE [call |-> "import_buffer_object_from_dma_buf",
              len |-> 1, handles |-> <<handles[1]>>,
              width |-> buf.width, height |-> buf.height,
              format |-> DmabufFormat(buf).code,
              usage |-> IF DmabufFormat(buf).modifier.kind = "Linear"
                        THEN usage \cup {"LINEAR"} ELSE usage,
              strides |-> <<AsU32(strides[1])>>, offsets |-> <<>>,
              modifier |-> <<>>]

\* the planes of the Dmabufs given to import: (offset, stride) of plane 0,
\* then planes of 64-byte rows
FirstPlanes ==
    { [offset |-> U32(0),  stride |-> U32(64)],
      [offset |-> U32(64), stride |-> U32(64)],
      [offset |-> U32(0),  stride |-> <<0, 0, 0, 128>>] }

RECURSIVE WithPlanes(_, _, _, _)
WithPlanes(builder, first, modifier, n) ==
    IF n = 0 THEN builder
    ELSE AddPlane(WithPlanes(builder, first, modifier, n - 1),
                  20 + n, n - 1,
                  IF n = 1 THEN first.offset ELSE U32(64 * n),
                  IF n = 1 THEN first.stride ELSE U32(64),
                  modifier)

ImportBuffers ==
    { DmabufBuild(WithPlanes(DmabufNew(U32(16), U32(16), "Argb8888", 0),
                             first, modifier, n)) :
        first \in FirstPlanes,
        modifier \in {ModifierFrom(ModLinear), ModifierFrom(ModInvalid),
                      ModifierFrom(I64(258))},
        n \in 1..MaxBoPlanes }

\* BufferObjectFlags the caller asks for
Usages == {{}, {"SCANOUT", "RENDERING"}, {"LINEAR"}}

GbmImport ==
    /\ gbm = GbmIdle
    /\ \E buf \in ImportBuffers, usage \in Usages :
           gbm' = [op |-> "import", buf |-> buf, usage |-> usage,
                   out |-> import(buf, usage)]
    /\ UNCHANGED <<pending_planes, used, last, replay>>

\* an exported Dmabuf is imported again
GbmReimport ==
    /\ gbm.op = "export"
    /\ gbm.out.result = "Ok"
    /\ \E usage \in Usages :
           gbm' = [op |-> "import", buf |-> gbm.out.dmabuf, usage |-> usage,
                   out |-> import(gbm.out.dmabuf, usage)]
    /\ UNCHANGED <<pending_planes, used, last, replay>>

(***************************************************************************)
(* Binding the global.                                                     *)
(***************************************************************************)
\* display.create_global(3, ..): the versions a client can bind
GlobalVersion == 3
BindVersions == 1..GlobalVersion

\* faulty variant: modifiers from version 2 on
SendsModifiers_Early(version) == version >= 2

\* if version >= 3
SendsModifiers(version) == version >= 3

\* dmabuf.format(f.code as u32)
FormatEvent(f) ==
    [name |-> "format", code |-> FourccCodes[f.code], hi |-> <<>>, lo |-> <<>>]

\* dmabuf.modifier(f.code as u32, (modifier >> 32) as u32, modifier as u32)
ModifierEvent(f) ==
    [name |-> "modifier", code |-> FourccCodes[f.code],
     hi |-> SubSeq(f.modifier.raw, 5, 8), lo |-> SubSeq(f.modifier.raw, 1, 4)]

\* for f in &*formats { .. }
RECURSIVE SendFormats(_, _)
SendFormats(fmts, version) ==
    IF fmts = <<>> THEN <<>>
    ELSE LET f == Head(fmts)
         IN  (IF SendsModifiers(version)
              THEN <<FormatEvent(f), ModifierEvent(f)>>
              ELSE <<FormatEvent(f)>>) \o SendFormats(Tail(fmts), version)

\* the Filter of the global: a client binds it with `version`
Bind(version) ==
    /\ last' = [Quiet EXCEPT !.op = "bind", !.version = version,
                             !.events = SendFormats(formats, version)]
    /\ UNCHANGED <<pending_planes, used>>

(***************************************************************************)
(* The specification: requests on one negotiation object, in any order.    *)
(***************************************************************************)
\* CreateParams: a fresh ParamsHandler
Init ==
    /\ pending_planes = [p \in Params |-> <<>>]
    /\ used = [p \in Params |-> FALSE]
    /\ last = Quiet
    /\ replay = NoReplay
    /\ gbm = GbmIdle

NextAdd ==
    /\ \E p \in MainParams, a \in PlaneArgs, idx \in PlaneIdxs :
           AddRequest(p, a.fd, idx, a.offset, a.stride, a.hi, a.lo)
    /\ UNCHANGED beside

NextCreate ==
    /\ \E p \in MainParams, c \in CreateArgs, fl \in FlagArgs :
           CreateRequest(p, c.width, c.height, c.format, fl)
    /\ UNCHANGED beside

NextCreateImmed ==
    /\ \E p \in MainParams, c \in CreateArgs, fl \in FlagArgs :
           CreateImmedRequest(p, c.width, c.height, c.format, fl)
    /\ UNCHANGED beside

NextBind ==
    /\ \E version \in BindVersions : Bind(version)
    /\ UNCHANGED beside

Next == NextAdd \/ NextCreate \/ NextCreateImmed \/ NextBind

Spec == Init /\ [][Next]_vars

(***************************************************************************)
(* PairSpec: the requests of two negotiation objects interleave.  Every    *)
(* request of object 1 is given once more, with the same arguments, to the *)
(* twin, which gets no other request.                                      *)
(***************************************************************************)
PairPlaneArgs == {a \in PlaneArgs : a.offset = U32(0)}
PairPlaneIdxs == {0, 1, max_planes}
PairCreateArgs ==
    {c \in CreateArgs : c.width = 16 /\ c.height \in {1, 16}
                                    /\ c.format # FourccCodes.Nv12}

\* the request stays to be replayed when it went to object 1
Replayed(p, request) == IF p \in MainParams THEN request ELSE NoReplay

PairAdd ==
    /\ replay = NoReplay
    /\ \E p \in PairParams, a \in PairPlaneArgs, idx \in PairPlaneIdxs :
           /\ AddRequest(p, a.fd, idx, a.offset, a.stride, a.hi, a.lo)
           /\ replay' = Replayed(p, [NoReplay EXCEPT !.op = "add", !.plane = a,
                                                      !.plane_idx = idx])
    /\ UNCHANGED gbm

PairCreate ==
    /\ replay = NoReplay
    /\ \E p \in PairParams, c \in PairCreateArgs, fl \in FlagArgs :
           /\ CreateRequest(p, c.width, c.height, c.format, fl)
           /\ replay' = Replayed(p, [NoReplay EXCEPT !.op = "create", !.create = c,
                                                      !.flags = fl])
    /\ UNCHANGED gbm

PairCreateImmed ==
    /\ replay = NoReplay
    /\ \E p \in PairParams, c \in PairCreateArgs, fl \in FlagArgs :
           /\ CreateImmedRequest(p, c.width, c.height, c.format, fl)
           /\ replay' = Replayed(p, [NoReplay EXCEPT !.op = "create_immed",
                                                      !.create = c, !.flags = fl])
    /\ UNCHANGED gbm

PairReplay ==
    /\ replay # NoReplay
    /\ \E t \in TwinParams :
           CASE replay.op = "add" ->
                   AddRequest(t, replay.plane.fd, replay.plane_idx,
                              replay.plane.offset, replay.plane.stride,
                              replay.plane.hi, replay.plane.lo)
             [] replay.op = "create" ->
                   CreateRequest(t, replay.create.width, replay.create.height,
                                 replay.create.format, replay.flags)
             [] replay.op = "create_immed" ->
                   CreateImmedRequest(t, replay.create.width, replay.create.height,
                                      replay.create.format, replay.flags)
    /\ replay' = NoReplay
    /\ UNCHANGED gbm

PairNext == PairAdd \/ PairCreate \/ PairCreateImmed \/ PairReplay

PairSpec == Init /\ [][PairNext]_vars

(***************************************************************************)
(* GbmSpec: exports of driver buffer objects and imports of Dmabufs.       *)
(***************************************************************************)
GbmNext == GbmExport \/ GbmImport \/ GbmReimport

GbmSpec == Init /\ [][GbmNext]_vars

(***************************************************************************)
(* Properties.  `last` tells which request made a step and what it sent;   *)
(* a property of a step compares the state before it with the one after.   *)
(***************************************************************************)
CreateOps == {"create", "create_immed"}

\* C1 (terminality): a create or create_immed that reaches an Accumulating
\* object leaves it Used whatever the call's outcome, and every request on
\* a Used object posts AlreadyUsed, sends and builds nothing else, and
\* leaves the stored planes and the Used state as they were.
C1_Terminality ==
    [][\A p \in Params :
          /\ (last'.p = p /\ last'.op \in CreateOps) => used'[p]
          /\ used[p] =>
                /\ used'[p]
                /\ pending_planes'[p] = pending_planes[p]
                /\ last'.p = p =>
                      /\ last'.err = "AlreadyUsed"
                      /\ last'.event = "none"
                      /\ last'.dmabuf = NoDmabuf
                      /\ last'.validated = 0]_vars

\* an add refused with AlreadyUsed after a create that failed and left planes
C1_Witness ==
    /\ used[1]
    /\ last.op = "add"
    /\ last.err = "AlreadyUsed"
    /\ pending_planes[1] # <<>>

\* C3: on an Accumulating object, add with a plane_idx below 4 that a stored
\* plane already has posts PlaneSet, and the stored planes (each entry's
\* descriptor, offset, stride and modifier) and the state are unchanged.
C3_DuplicateIndexRefused ==
    [][\A p \in Params :
          (/\ last'.op = "add"
           /\ last'.p = p
           /\ ~used[p]
           /\ last'.plane_idx < 4
           /\ \E i \in 1..Len(pending_planes[p]) :
                  pending_planes[p][i].plane_idx = last'.plane_idx)
          => /\ last'.err = "PlaneSet"
             /\ pending_planes' = pending_planes
             /\ used' = used]_vars

\* an add refused with PlaneSet on an object that holds the plane and is
\* still Accumulating
C3_Witness ==
    /\ last.op = "add"
    /\ last.err = "PlaneSet"
    /\ ~used[1]
    /\ \E i \in 1..Len(pending_planes[1]) :
           pending_planes[1][i].plane_idx = last.plane_idx

\* C4: on an Accumulating object, add with plane_idx >= 4 posts PlaneIdx,
\* stores nothing and leaves the object Accumulating; add with plane_idx in
\* 0..3 never posts PlaneIdx.
C4_PlaneIdxBound ==
    [][\A p \in Params :
          (last'.op = "add" /\ last'.p = p /\ ~used[p])
          => /\ last'.plane_idx >= 4 =>
                   /\ last'.err = "PlaneIdx"
                   /\ pending_planes' = pending_planes
                   /\ used' = used
             /\ last'.plane_idx \in 0..3 => last'.err # "PlaneIdx"]_vars

\* an add with plane_idx >= 4 refused on an Accumulating object
C4_Witness ==
    /\ last.op = "add"
    /\ last.plane_idx >= 4
    /\ last.err = "PlaneIdx"
    /\ ~used[1]

\* the codes of the supported formats, 'AR24' and 'XR24'
SupportedCode(code) == code \in {<<65, 82, 50, 52>>, <<88, 82, 50, 52>>}

\* stride * height + offset, exactly, as 9 bytes
EndExact(plane, height) ==
    AddFull(MulFull(plane.stride, U32(height)), Widen(plane.offset))

\* stride * height + offset does not fit in an unsigned 32-bit integer
Overflows(plane, height) == ~IsZero(SubSeq(EndExact(plane, height), 5, 9))

\* stride * height + offset <= the size of the plane's descriptor
EndWithinSize(plane, height) ==
    ~Gt(EndExact(plane, height), FdSize[plane.fd] \o <<0>>)

\* C2, as amended: when buffer_basic_checks fails, create and create_immed
\* do the same: the error posted is the validator's own (InvalidFormat for
\* an unsupported code, else InvalidDimensions for a width or height below
\* 1, else OutOfBounds), neither failed() nor InvalidWlBuffer is sent, no
\* Buffer is built and the callback is not invoked.  failed() comes only
\* from a create whose callback rejected, InvalidWlBuffer only from a
\* create_immed whose callback rejected.
C2_ValidatorFailureAlike ==
    /\ (last.op \in CreateOps /\ last.checks = "failed") =>
          /\ last.err = IF ~SupportedCode(last.format) THEN "InvalidFormat"
                        ELSE IF last.width < 1 \/ last.height < 1
                             THEN "InvalidDimensions"
                        ELSE "OutOfBounds"
          /\ last.event = "none"
          /\ last.dmabuf = NoDmabuf
          /\ last.validated = 0
          /\ ~last.bound
    /\ last.event = "failed" =>
          /\ last.op = "create"
          /\ last.checks = "passed"
          /\ last.validated = 1
          /\ ~last.accepted
          /\ last.err = "none"
    /\ last.err = "InvalidWlBuffer" =>
          /\ last.op = "create_immed"
          /\ last.checks = "passed"
          /\ last.validated = 1
          /\ ~last.accepted

\* a create_immed whose validator failed on a stored plane
C2_Witness ==
    /\ last.op = "create_immed"
    /\ last.checks = "failed"
    /\ last.err = "OutOfBounds"
    /\ pending_planes[1] # <<>>

\* C2 as stated: a validator failure makes create_immed post InvalidWlBuffer
\* and makes create send failed() and post no error.
C2_AsStated ==
    last.checks = "failed" =>
        /\ last.op = "create_immed" => last.err = "InvalidWlBuffer"
        /\ last.op = "create" => (last.event = "failed" /\ last.err = "none")

\* C5, as amended: a create or create_immed that reaches an Accumulating
\* object with width < 1 or height < 1 posts InvalidDimensions when the
\* format code is one of the supported formats and InvalidFormat when it is
\* not; either way no Buffer is built and the callback is not invoked.
C5_BadDimensions ==
    (/\ last.op \in CreateOps
     /\ last.err # "AlreadyUsed"
     /\ (last.width < 1 \/ last.height < 1))
    => /\ last.err = IF SupportedCode(last.format) THEN "InvalidDimensions"
                     ELSE "InvalidFormat"
       /\ last.dmabuf = NoDmabuf
       /\ last.validated = 0
       /\ last.event = "none"

\* a create with a supported format and only the width below 1
C5_Witness ==
    /\ last.op = "create"
    /\ last.width < 1
    /\ last.height >= 1
    /\ last.err = "InvalidDimensions"

\* C5 as stated: width < 1 or height < 1 always gives InvalidDimensions.
C5_AsStated ==
    (/\ last.op \in CreateOps
     /\ last.err # "AlreadyUsed"
     /\ (last.width < 1 \/ last.height < 1))
    => /\ last.err = "InvalidDimensions"
       /\ last.dmabuf = NoDmabuf
       /\ last.validated = 0

\* C6, as amended: when the validator runs with height >= 1 on planes of
\* which one has a stride * height + offset that does not fit in 32 bits,
\* it fails and no Buffer is built; the error is OutOfBounds when the format
\* is supported and width >= 1 (else the earlier check's error).  No plane
\* of a request that passed the validator has such a sum: it is never
\* wrapped and accepted.
C6_OverflowRefused ==
    /\ (/\ last.op \in CreateOps
        /\ last.checks # "none"
        /\ last.height >= 1
        /\ \E i \in 1..Len(pending_planes[last.p]) :
               Overflows(pending_planes[last.p][i], last.height))
       => /\ last.checks = "failed"
          /\ last.dmabuf = NoDmabuf
          /\ (SupportedCode(last.format) /\ last.width >= 1)
                => last.err = "OutOfBounds"
    /\ last.checks = "passed" =>
          \A i \in 1..Len(last.dmabuf.planes) :
              ~Overflows(last.dmabuf.planes[i], last.height)

\* stride u32::MAX with height 2 refused with OutOfBounds
C6_Witness ==
    /\ last.op \in CreateOps
    /\ last.height = 2
    /\ last.err = "OutOfBounds"
    /\ last.msg = "size_overflow"
    /\ Len(pending_planes[1]) = 1
    /\ pending_planes[1][1].stride = U32Max

\* C6 as stated: with height >= 1 and an overflowing plane the validator
\* fails with OutOfBounds.
C6_AsStated ==
    (/\ last.op \in CreateOps
     /\ last.checks # "none"
     /\ last.height >= 1
     /\ \E i \in 1..Len(pending_planes[last.p]) :
            Overflows(pending_planes[last.p][i], last.height))
    => last.err = "OutOfBounds"

\* a create on an Accumulating object that holds exactly one plane, added
\* with plane_idx 0 on a descriptor whose size is known, with a supported
\* format and width, height >= 1
C7_Case(p) ==
    /\ last'.op = "create"
    /\ last'.p = p
    /\ ~used[p]
    /\ SupportedCode(last'.format)
    /\ last'.width >= 1
    /\ last'.height >= 1
    /\ Len(pending_planes[p]) = 1
    /\ pending_planes[p][1].plane_idx = 0
    /\ FdSize[pending_planes[p][1].fd] # NoSize

\* the create passed the validator and built a Buffer of that one plane
C7_Built(p) ==
    /\ last'.checks = "passed"
    /\ last'.dmabuf # NoDmabuf
    /\ Len(last'.dmabuf.planes) = 1
    /\ last'.dmabuf.planes[1].fd = pending_planes[p][1].fd

\* C7, as amended: in that case create passes the validator and builds a
\* single-plane Buffer exactly when stride * height + offset fits in an
\* unsigned 32-bit integer and is <= size, and posts OutOfBounds otherwise.
C7_SinglePlaneBounds ==
    [][\A p \in Params :
          C7_Case(p) =>
             LET plane == pending_planes[p][1]
                 within == /\ ~Overflows(plane, last'.height)
                           /\ EndWithinSize(plane, last'.height)
             IN  /\ C7_Built(p) <=> within
                 /\ ~within => (last'.err = "OutOfBounds" /\ last'.dmabuf = NoDmabuf)]_vars

\* stride 64, height 16, offset 0 built on the 1024-byte region
C7_Witness ==
    /\ last.op = "create"
    /\ last.height = 16
    /\ last.checks = "passed"
    /\ Len(last.dmabuf.planes) = 1
    /\ last.dmabuf.planes[1].fd = 4
    /\ last.dmabuf.planes[1].stride = U32(64)
    /\ last.dmabuf.planes[1].offset = U32(0)

\* C7 as stated: exactly when stride * height + offset <= size.
C7_AsStated ==
    [][\A p \in Params :
          C7_Case(p) =>
             LET within == EndWithinSize(pending_planes[p][1], last'.height)
             IN  /\ C7_Built(p) <=> within
                 /\ ~within => last'.err = "OutOfBounds"]_vars

\* C8: a create that minted a wl_buffer had passed the validator and built
\* a Buffer, and invoked the validation callback exactly once; when the
\* callback accepted, created was sent, failed was not and nothing was
\* released; when it rejected, failed was sent, created was not and the
\* wl_buffer was released.  No error is posted on either path, and created
\* is sent only for an accepted wl_buffer.
C8_CallbackDecides ==
    /\ (last.op = "create" /\ last.resource = "minted") =>
          /\ last.checks = "passed"
          /\ last.dmabuf # NoDmabuf
          /\ last.bound
          /\ last.validated = 1
          /\ last.err = "none"
          /\ last.accepted => (last.event = "created" /\ ~last.released)
          /\ ~last.accepted => (last.event = "failed" /\ last.released)
    /\ last.event = "created" =>
          (last.op = "create" /\ last.resource = "minted" /\ last.accepted)

\* a create whose callback rejected the minted wl_buffer
C8_Witness ==
    /\ last.op = "create"
    /\ last.resource = "minted"
    /\ last.validated = 1
    /\ ~last.accepted
    /\ last.event = "failed"
    /\ last.released

\* C9: a create_immed never sends failed; after it, either an error was
\* posted or the preallocated wl_buffer is bound to a Buffer that passed
\* the validator and that the callback, invoked once, accepted; a callback
\* rejection posts InvalidWlBuffer.
C9_ImmedAllOrNothing ==
    last.op = "create_immed" =>
        /\ last.event = "none"
        /\ \/ last.err # "none"
           \/ /\ last.bound
              /\ last.checks = "passed"
              /\ last.dmabuf # NoDmabuf
              /\ last.validated = 1
              /\ last.accepted
        /\ (last.validated >= 1 /\ ~last.accepted) => last.err = "InvalidWlBuffer"

\* a create_immed whose callback rejected the bound wl_buffer
C9_Witness ==
    /\ last.op = "create_immed"
    /\ last.checks = "passed"
    /\ last.bound
    /\ last.validated = 1
    /\ ~last.accepted
    /\ last.err = "InvalidWlBuffer"

\* the client's plane i of object p, as stored before the request
ClientPlane(p, i) ==
    {pending_planes[p][k] : k \in {j \in 1..Len(pending_planes[p]) :
                                       pending_planes[p][j].plane_idx = i}}

\* C10 as stated: every Buffer built by create or create_immed holds at
\* position i the plane the client added with plane_index i (same
\* descriptor, offset, stride and modifier).
C10_AsStated ==
    [][\A p \in Params :
          (/\ last'.op \in CreateOps
           /\ last'.p = p
           /\ last'.dmabuf # NoDmabuf)
          => \A i \in 1..Len(last'.dmabuf.planes) :
                LET built == last'.dmabuf.planes[i]
                IN  /\ built.plane_idx = i - 1
                    /\ \E plane \in ClientPlane(p, i - 1) :
                          /\ built.fd = plane.fd
                          /\ built.offset = plane.offset
                          /\ built.stride = plane.stride
                          /\ built.modifier = plane.modifier]_vars

\* C11 as stated: when add returns, the descriptor it was given is either
\* owned by a stored Plane and not closed (success), or not stored and
\* closed exactly once (AlreadyUsed, PlaneIdx, PlaneSet).
C11_AsStated ==
    last.op = "add" =>
        \/ /\ last.err = "none"
           /\ last.fd_stored
           /\ last.fd_closed = 0
        \/ /\ last.err \in {"AlreadyUsed", "PlaneIdx", "PlaneSet"}
           /\ ~last.fd_stored
           /\ last.fd_closed = 1

\* C12 as stated: after a create whose validator failed, no Buffer was
\* built, no wl_buffer was created, the validation callback was not invoked
\* and the object holds no plane any more.
C12_AsStated ==
    (last.op = "create" /\ last.checks = "failed") =>
        /\ last.dmabuf = NoDmabuf
        /\ last.resource = "none"
        /\ last.validated = 0
        /\ used[last.p]
        /\ pending_planes[last.p] = <<>>

\* the environment answered the replayed request as it answered the first
SameAnswers(a, b) ==
    /\ a.accepted = b.accepted
    /\ a.resource = b.resource
    /\ (a.msg = "panic") = (b.msg = "panic")

\* C13: with the requests of objects 1 and 2 interleaved in any order, a
\* request changes the stored planes and the used flag of no object but the
\* one it went to, and the twin of object 1, which got the requests of
\* object 1 alone, answers each of them as object 1 did and holds the same
\* planes and the same used flag afterwards.
C13_Independent ==
    [][/\ \A q \in Params \ {last'.p} :
             /\ pending_planes'[q] = pending_planes[q]
             /\ used'[q] = used[q]
       /\ replay' # NoReplay => last'.p \in MainParams
       /\ replay # NoReplay =>
             /\ last'.p \in TwinParams
             /\ last.p \in MainParams
             /\ SameAnswers(last', last) => last' = [last EXCEPT !.p = last'.p]
             /\ \A t \in TwinParams, p \in MainParams :
                   /\ pending_planes'[t] = pending_planes'[p]
                   /\ used'[t] = used'[p]]_vars

\* object 2 is Used and holds nothing, object 1 and its twin hold the same
\* two planes and a create on object 1 has just been answered alike by both
C13_Witness ==
    /\ used[2]
    /\ pending_planes[2] = <<>>
    /\ last.p = 3
    /\ last.op = "create"
    /\ last.err = "OutOfBounds"
    /\ Len(pending_planes[1]) = 2
    /\ pending_planes[3] = pending_planes[1]
    /\ replay = NoReplay

\* the events of `ev` with the given name, in order
RECURSIVE Named(_, _)
Named(ev, name) ==
    IF ev = <<>> THEN <<>>
    ELSE (IF Head(ev).name = name THEN <<Head(ev)>> ELSE <<>>)
         \o Named(Tail(ev), name)

\* C14: a bind sends one format event per supported format, in list order,
\* each carrying the format's code; with version >= 3 every format event is
\* followed by a modifier event with the same code whose upper and lower 32
\* bits make up the format's modifier, and with a version below 3 no
\* modifier event is sent at all.
C14_FormatEvents ==
    last.op = "bind" =>
        LET fs == Named(last.events, "format")
            ms == Named(last.events, "modifier")
            n  == Len(formats)
        IN  /\ Len(fs) = n
            /\ \A i \in 1..n : fs[i].code = FourccCodes[formats[i].code]
            /\ Len(last.events) = Len(fs) + Len(ms)
            /\ IF last.version >= 3
               THEN /\ Len(ms) = n
                    /\ \A i \in 1..n :
                          /\ last.events[2 * i - 1] = fs[i]
                          /\ last.events[2 * i] = ms[i]
                          /\ ms[i].code = fs[i].code
                          /\ Len(ms[i].hi) = 4
                          /\ Len(ms[i].lo) = 4
                          /\ ModifierFrom(ms[i].lo \o ms[i].hi) = formats[i].modifier
               ELSE ms = <<>>

\* a version 2 client was sent the two codes and nothing else
C14_Witness ==
    /\ last.op = "bind"
    /\ last.version = 2
    /\ Len(last.events) = 2
    /\ last.events[2].code = <<88, 82, 50, 52>>

\* offset <= size and offset + stride <= size, exactly
StartWithinSize(plane) ==
    LET size == FdSize[plane.fd] \o <<0>>
    IN  /\ ~Gt(Widen(plane.offset) \o <<0>>, size)
        /\ ~Gt(AddFull(Widen(plane.offset), Widen(plane.stride)), size)

\* what C15 lets through: the sum fits in 32 bits and, when the size of the
\* descriptor is known, offset and offset + stride are within it and, for
\* the plane the client numbered 0 only, stride * height + offset as well
PlaneAdmitted(plane, height) ==
    /\ ~Overflows(plane, height)
    /\ FdSize[plane.fd] # NoSize =>
          /\ StartWithinSize(plane)
          /\ plane.plane_idx = 0 => EndWithinSize(plane, height)

\* C15: a create or create_immed with a supported format and width, height
\* >= 1 passes the validator exactly when every stored plane is admitted in
\* that sense: offset <= size and offset + stride <= size are required of
\* every plane of known size, stride * height + offset <= size of plane 0
\* alone, and nothing about the size of a plane whose size is unknown.
C15_Asymmetry ==
    [][\A p \in Params :
          (/\ last'.op \in CreateOps
           /\ last'.p = p
           /\ ~used[p]
           /\ SupportedCode(last'.format)
           /\ last'.width >= 1
           /\ last'.height >= 1)
          => /\ (last'.checks = "passed") <=>
                   \A i \in 1..Len(pending_planes[p]) :
                       PlaneAdmitted(pending_planes[p][i], last'.height)
             /\ last'.checks # "passed" =>
                   (last'.checks = "failed" /\ last'.err = "OutOfBounds")]_vars

\* sixteen rows of 64 bytes accepted on the 512-byte region, as the second
\* plane of a buffer
C15_Witness ==
    /\ last.op \in CreateOps
    /\ last.checks = "passed"
    /\ last.height = 16
    /\ Len(last.dmabuf.planes) = 2
    /\ last.dmabuf.planes[1].fd = 4
    /\ last.dmabuf.planes[2].fd = 3
    /\ last.dmabuf.planes[2].stride = U32(64)

\* C16: a create or create_immed with a supported format and width, height
\* >= 1 on an Accumulating object that holds no plane posts Incomplete: no
\* Buffer is built, nothing is bound to the wl_buffer, the validation
\* callback is not invoked, no event is sent and the object is Used.
C16_ZeroPlanes ==
    [][\A p \in Params :
          (/\ last'.op \in CreateOps
           /\ last'.p = p
           /\ ~used[p]
           /\ pending_planes[p] = <<>>
           /\ SupportedCode(last'.format)
           /\ last'.width >= 1
           /\ last'.height >= 1)
          => /\ last'.err = "Incomplete"
             /\ last'.dmabuf = NoDmabuf
             /\ ~last'.bound
             /\ last'.validated = 0
             /\ last'.event = "none"
             /\ used'[p]
             /\ pending_planes'[p] = <<>>]_vars

\* a create_immed on a fresh object
C16_Witness ==
    /\ last.op = "create_immed"
    /\ last.err = "Incomplete"
    /\ last.checks = "passed"
    /\ used[last.p]

\* the codes Fourcc::try_from knows: 'AR24', 'XR24', 'NV12'
DecodableCode(code) == SupportedCode(code) \/ code = <<78, 86, 49, 50>>

\* the first of the four plane checks that the plane fails, in exact
\* arithmetic, or "none"
PlaneFailure(plane, height) ==
    LET size == FdSize[plane.fd] \o <<0>>
    IN  IF Overflows(plane, height) THEN "size_overflow"
        ELSE IF FdSize[plane.fd] = NoSize THEN "none"
        ELSE IF Gt(Widen(plane.offset) \o <<0>>, size) THEN "invalid_offset"
        ELSE IF Gt(AddFull(Widen(plane.offset), Widen(plane.stride)), size)
             THEN "invalid_stride"
        ELSE IF plane.plane_idx = 0 /\ ~EndWithinSize(plane, height)
             THEN "invalid_stride_or_height"
        ELSE "none"

RECURSIVE FirstFailingPlane(_, _, _)
\* the first plane from position i on that fails a check, with the check
FirstFailingPlane(planes, height, i) ==
    IF i > Len(planes) THEN <<"none", "none", -1>>
    ELSE IF PlaneFailure(planes[i], height) = "none"
         THEN FirstFailingPlane(planes, height, i + 1)
    ELSE <<"OutOfBounds", PlaneFailure(planes[i], height), planes[i].plane_idx>>

\* the first failing check of a request, in the order of C17:
\* <<error, message, plane_idx named>>, or <<"none", ..>>
FirstFailure(planes, the) ==
    IF ~DecodableCode(the.format) THEN <<"InvalidFormat", "format_decode", -1>>
    ELSE IF ~SupportedCode(the.format)
         THEN <<"InvalidFormat", "format_unsupported", -1>>
    ELSE IF the.width < 1 \/ the.height < 1
         THEN <<"InvalidDimensions", "dimensions", -1>>
    ELSE FirstFailingPlane(planes, the.height, 1)

\* C17: a create or create_immed on an Accumulating object of which some
\* check fails posts exactly one error, the one of the first failing check
\* in the order format decodes, format supported, dimensions, then plane by
\* plane in insertion order overflow, offset, offset + stride, end of plane
\* 0; nothing else is sent.  When no check fails, none of InvalidFormat,
\* InvalidDimensions, OutOfBounds is posted.
C17_FirstFailureOnly ==
    [][\A p \in Params :
          (last'.op \in CreateOps /\ last'.p = p /\ ~used[p])
          => \E first \in {FirstFailure(pending_planes[p], last')} :
                 IF first[1] # "none"
                 THEN /\ last'.err = first[1]
                      /\ last'.msg = first[2]
                      /\ last'.msg_plane = first[3]
                      /\ last'.posted = 1
                      /\ last'.event = "none"
                      /\ last'.dmabuf = NoDmabuf
                      /\ last'.validated = 0
                 ELSE /\ last'.checks = "passed"
                      /\ last'.err \in {"none", "Incomplete", "InvalidWlBuffer"}
                      /\ last'.posted <= 1]_vars

\* two stored planes that both fail; the one added first is reported
C17_Witness ==
    /\ last.op \in CreateOps
    /\ last.err = "OutOfBounds"
    /\ Len(pending_planes[last.p]) = 2
    /\ pending_planes[last.p][1].plane_idx = 1
    /\ PlaneFailure(pending_planes[last.p][1], last.height) = "invalid_offset"
    /\ PlaneFailure(pending_planes[last.p][2], last.height) = "invalid_stride"
    /\ last.msg = "invalid_offset"
    /\ last.msg_plane = 1

\* some handle of the buffer object is unreadable or differs from another
HandlesDiffer(bo) ==
    \E i, j \in 0..(bo.count - 1) :
        bo.handle[i] = "Err" \/ bo.handle[i] # bo.handle[j]

\* C18 as stated: an export of a buffer object with N >= 1 planes returns
\* UnsupportedBuffer, before any descriptor is obtained, whenever a handle is
\* unreadable or two handles differ, and gets past the check only when all
\* N handles are readable and equal.
C18_AsStated ==
    (gbm.op = "export" /\ gbm.bo.count_ok) =>
        /\ HandlesDiffer(gbm.bo) =>
              (gbm.out.result = "UnsupportedBuffer" /\ gbm.out.fd_calls = 0)
        /\ gbm.out.result # "UnsupportedBuffer" => ~HandlesDiffer(gbm.bo)

\* C19 as stated: a successful export has obtained exactly one descriptor
\* and every one of the N plane entries holds it, with index i and the
\* offset, stride and modifier queried for plane i; a descriptor 0 gives
\* InvalidFD and no Buffer; every descriptor obtained is owned by a plane of
\* the Buffer or was closed.
C19_AsStated ==
    gbm.op = "export" =>
        /\ gbm.out.result = "Ok" =>
              /\ gbm.out.fd_calls = 1
              /\ Len(gbm.out.obtained) = 1
              /\ Len(gbm.out.dmabuf.planes) = gbm.bo.count
              /\ \A i \in 1..Len(gbm.out.dmabuf.planes) :
                    /\ gbm.out.dmabuf.planes[i].fd = gbm.out.obtained[1]
                    /\ gbm.out.dmabuf.planes[i].plane_idx = i - 1
                    /\ gbm.out.dmabuf.planes[i].offset = BoOffset(i - 1)
                    /\ gbm.out.dmabuf.planes[i].stride = BoStride(i - 1)
                    /\ gbm.out.dmabuf.planes[i].modifier = gbm.bo.modifier
        /\ gbm.out.result = "InvalidFD" => gbm.out.dmabuf = NoDmabuf
        /\ \A k \in 1..Len(gbm.out.obtained) :
              gbm.out.obtained[k] # 0 =>
                 \/ gbm.out.obtained[k] \in gbm.out.closed
                 \/ \E i \in 1..Len(gbm.out.dmabuf.planes) :
                       gbm.out.dmabuf.planes[i].fd = gbm.out.obtained[k]

\* C20: import calls the with-modifiers function exactly when the modifier
\* of the Dmabuf is neither Invalid nor Linear, or it has more than one
\* plane, or the offset of its first plane is not 0, with three arrays of
\* length 4 holding each plane's descriptor, stride and offset at the
\* plane's position and 0 beyond the planes; otherwise it calls the simple
\* function with the descriptor and stride of plane 0 alone and with the
\* caller's usage, to which LINEAR is added exactly when the modifier is
\* Linear.
C20_ImportPath ==
    gbm.op = "import" =>
        LET buf == gbm.buf
            out == gbm.out
            n == Len(buf.planes)
            multi == \/ buf.planes[1].modifier.kind = "Unrecognized"
                     \/ n > 1
                     \/ buf.planes[1].offset # <<0, 0, 0, 0>>
        IN  /\ multi <=> out.call = "import_buffer_object_from_dma_buf_with_modifiers"
            /\ ~multi <=> out.call = "import_buffer_object_from_dma_buf"
            /\ multi =>
                  /\ out.len = n
                  /\ out.usage = gbm.usage
                  /\ out.modifier = buf.planes[1].modifier
                  /\ Len(out.handles) = 4
                  /\ Len(out.strides) = 4
                  /\ Len(out.offsets) = 4
                  /\ \A i \in 1..4 :
                        IF i <= n
                        THEN /\ out.handles[i] = buf.planes[i].fd
                             /\ AsU32(out.strides[i]) = buf.planes[i].stride
                             /\ AsU32(out.offsets[i]) = buf.planes[i].offset
                        ELSE /\ out.handles[i] = 0
                             /\ out.strides[i] = 0
                             /\ out.offsets[i] = 0
            /\ ~multi =>
                  /\ out.handles = <<buf.planes[1].fd>>
                  /\ out.strides = <<buf.planes[1].stride>>
                  /\ out.usage = IF buf.planes[1].modifier.kind = "Linear"
                                 THEN gbm.usage \cup {"LINEAR"}
                                 ELSE gbm.usage

\* a single Linear plane at offset 0: the simple call, LINEAR added
C20_Witness ==
    /\ gbm.op = "import"
    /\ gbm.out.call = "import_buffer_object_from_dma_buf"
    /\ "LINEAR" \notin gbm.usage
    /\ "LINEAR" \in gbm.out.usage
    /\ gbm.out.strides = << <<0, 0, 0, 128>> >>

\* C21 as stated: in every Buffer that create or create_immed hands to the
\* validation callback, the plane stored at index 0 satisfies
\* stride * height + offset <= the size of its descriptor whenever that
\* size is determinable, whatever the order of the adds and the plane
\* indices the client supplied.
C21_AsStated ==
    (/\ last.op \in CreateOps
     /\ last.validated >= 1
     /\ last.dmabuf # NoDmabuf)
    => LET plane == last.dmabuf.planes[1]
       IN  FdSize[plane.fd] # NoSize => EndWithinSize(plane, last.height)

\* the validator gets as far as offset + stride for the plane at position i:
\* no earlier plane fails, stride * height + offset fits in 32 bits, the
\* size of the descriptor is known and the offset is within it
SumEvaluated(planes, i, height) ==
    /\ FdSize[planes[i].fd] # NoSize
    /\ ~Gt(Widen(planes[i].offset), FdSize[planes[i].fd])
    /\ ~Overflows(planes[i], height)
    /\ \A j \in 1..(i - 1) : PlaneFailure(planes[j], height) = "none"

\* offset + stride, exactly, fits in an unsigned 32-bit integer
SumFits(plane) == AddFull(plane.offset, plane.stride)[5] = 0

\* C22: no create or create_immed makes the validator's unchecked 32-bit
\* offset + stride overflow: the request neither aborts on it nor goes on
\* with a wrapped sum, and for every plane the validator evaluates the sum
\* for (height >= 1 established, stride * height + offset computed without
\* overflow) offset + stride fits in an unsigned 32-bit integer.
C22_SumFits ==
    [][\A p \in Params :
          (last'.op \in CreateOps /\ last'.p = p /\ ~used[p])
          => /\ ~last'.ovf
             /\ last'.msg # "panic"
             /\ (/\ SupportedCode(last'.format)
                 /\ last'.width >= 1
                 /\ last'.height >= 1)
                => \A i \in 1..Len(pending_planes[p]) :
                       SumEvaluated(pending_planes[p], i, last'.height)
                       => SumFits(pending_planes[p][i])]_vars

\* offset 1000 + stride 64 was evaluated and found past the 1024 bytes
C22_Witness ==
    /\ last.op \in CreateOps
    /\ last.height = 1
    /\ last.msg = "invalid_stride"
    /\ ~last.ovf
    /\ Len(pending_planes[1]) = 1
    /\ pending_planes[1][1].offset = U32(1000)
    /\ SumEvaluated(pending_planes[1], 1, 1)

====
